---- MODULE Spec2Model ----
(***************************************************************************)
(* A model of the dependency-injection container of 6pm-js/depend: the     *)
(* metadata store (Module), the binding table and cycle validation         *)
(* (BoundContainer) and the factory compiler (CodeBuilder).                *)
(***************************************************************************)
EXTENDS Naturals, Sequences, FiniteSets, TLC

VARIABLES
    data,       \* Module.data: type -> DependencyData (known = FALSE: no record)
    order,      \* insertion order of the keys of Module.data
    binding,    \* BoundContainer[BINDING]: type -> implementation, or NoType
    build,      \* type[BUILD] of the container's CodeBuilder, per type
    container,  \* "none", "ok" (constructed), "zombie" (constructor threw, listener stays)
    nextId,     \* the number of instances constructed so far
    tasks,      \* the constructions that returned a deferred, in the order they began
    traits,     \* which classes' constructor, setter and init return a deferred
    protos,     \* the (type, key) whose prototype method declareAbstract replaced
    left,       \* how many declarations, binds and creates may still be made,
                \* and which configuration calls have raised
    last,       \* the last operation and its outcome
    handed,     \* what create has yielded for the singleton types (history)
    journal,    \* per instance, its class and what happened to it, in order (history)
    other       \* a second container over the same Module: its binding, build,
                \* container and handed

vars == <<data, order, binding, build, container, nextId, tasks, traits, protos, left,
          last, handed, journal, other>>



-----------------------------------------------------------------------------
(* The classes the model runs on:                                           *)
(*   class A {}, class B {}, class C extends B {}, class D {}               *)

Types == {"A", "B", "C", "D"}

Object == "Object"

NoType == "none"

NoKey == "null"

Parent(t) == IF t = "C" THEN "B" ELSE Object

\* keys "a" and "b" are plain properties; "m" and "i" are methods, defined by
\* the classes that extend Object and inherited by C
MethodKeys == {"m", "i"}

PropertyKeys == {"a", "b"}

\* no key names a function of the prototype
IsMethodNever(type, key) == FALSE

\* every key names a function of the prototype
IsMethodAlways(type, key) == TRUE

IsMethod(type, key) == key \in MethodKeys

RECURSIVE constructorChain(_)
constructorChain(constructor) ==
    IF constructor = Object THEN <<Object>>
    ELSE <<constructor>> \o constructorChain(Parent(constructor))

-----------------------------------------------------------------------------
(* Definition trees: a constructor, an array literal or an object literal   *)

Leaf(t) == [kind |-> "type", type |-> t, items |-> <<>>, keys |-> <<>>]

Arr(items) == [kind |-> "array", type |-> NoType, items |-> items, keys |-> <<>>]

Obj(keys, items) == [kind |-> "object", type |-> NoType, items |-> items, keys |-> keys]

-----------------------------------------------------------------------------
(* Module: the metadata store                                               *)

NoData ==
    [known |-> FALSE, injects |-> <<>>, hasConstruct |-> FALSE, construct |-> <<>>,
     init |-> NoKey, abstract |-> FALSE, singleton |-> FALSE]

DependencyData == [NoData EXCEPT !.known = TRUE]

\* the record of a type with the constructor definition, the init key and the
\* singleton mark of its parent where it has none of its own
getDataMerged(d, type) ==
    IF type \notin Types THEN NoData
    ELSE IF Parent(type) \notin Types THEN d[type]
    ELSE LET own == d[type]
             base == d[Parent(type)]
         IN  [own EXCEPT !.hasConstruct = own.hasConstruct \/ base.hasConstruct,
                         !.construct = IF own.hasConstruct THEN own.construct
                                       ELSE base.construct,
                         !.init = IF own.init # NoKey THEN own.init ELSE base.init,
                         !.singleton = own.singleton \/ base.singleton]

getData(d, type) == IF type \in Types THEN d[type] ELSE NoData

createData(d, type) ==
    IF d[type].known THEN d ELSE [d EXCEPT ![type] = DependencyData]

createOrder(d, o, type) == IF d[type].known THEN o ELSE Append(o, type)

-----------------------------------------------------------------------------
(* BoundContainer.resolve: follow the bindings to a type with none.  The    *)
(* loop never ends on a cyclic table: Hang stands for that.                 *)

Hang == "hang"

\* one step along the bindings instead of the loop
resolveOnce(b, lastType, seen) ==
    IF b[lastType] = NoType THEN lastType ELSE b[lastType]

RECURSIVE resolveFrom(_, _, _)
resolveFrom(b, lastType, seen) ==
    IF b[lastType] = NoType THEN lastType
    ELSE IF b[lastType] \in seen THEN Hang
    ELSE resolveFrom(b, b[lastType], seen \cup {b[lastType]})

resolve(b, type) == resolveFrom(b, type, {type})

-----------------------------------------------------------------------------
(* Injection points a type is furnished with: its own and its ancestors',   *)
(* most derived first, an overridden key skipped (the `properties` map of   *)
(* validateInjects and of injectBuilder).                                   *)

RECURSIVE chainInjects(_, _)
chainInjects(d, chain) ==
    IF chain = <<>> THEN <<>>
    ELSE getData(d, Head(chain)).injects \o chainInjects(d, Tail(chain))

RECURSIVE skipOverridden(_, _)
skipOverridden(injects, properties) ==
    IF injects = <<>> THEN <<>>
    ELSE IF Head(injects).key \in properties
         THEN skipOverridden(Tail(injects), properties)
         ELSE <<Head(injects)>>
              \o skipOverridden(Tail(injects), properties \cup {Head(injects).key})

inheritedInjects(d, type) ==
    skipOverridden(chainInjects(d, constructorChain(type)), {})

-----------------------------------------------------------------------------
(* BoundContainer.validate and its Stack                                    *)

NoError == "none"

NewStack ==
    [set |-> {}, stack |-> <<>>, err |-> NoError,
     origins |-> <<>>, type |-> NoType, resolved |-> NoType]

StackPush(s, type, origin) ==
    [s EXCEPT !.set = @ \cup {type}, !.stack = Append(@, origin)]

\* pop() that leaves the origin on the stack
StackPopKeeping(s) == [s EXCEPT !.set = @ \ {s.stack[Len(s.stack)]}]

\* pop(): this.set.delete(this.stack.pop()) deletes the origin string
StackPop(s) ==
    [s EXCEPT !.set = @ \ {s.stack[Len(s.stack)]},
              !.stack = SubSeq(@, 1, Len(@) - 1)]

\* the slip of pop() made in has(): the type looked up among the origins
StackHasOrigin(s, type) == type \in {s.stack[i] : i \in 1..Len(s.stack)}

StackHas(s, type) == type \in s.set

Origin(type, key, method) ==
    IF key = NoKey THEN type \o "(constructor)"
    ELSE type \o "." \o key \o (IF method THEN "()" ELSE "")

RECURSIVE validateDefinition(_, _, _, _, _)
RECURSIVE walkArray(_, _, _, _, _)
RECURSIVE walkInjects(_, _, _, _, _, _)
RECURSIVE validateType(_, _, _, _, _)

walkArray(d, b, s, array, path) ==
    IF array = <<>> \/ s.err # NoError THEN s
    ELSE walkArray(d, b, validateDefinition(d, b, s, Head(array), path),
                   Tail(array), path)

walkObject(d, b, s, object, path) == walkArray(d, b, s, object.items, path)

validateDefinition(d, b, s, definition, path) ==
    IF s.err # NoError THEN s
    ELSE IF definition.kind = "array" THEN walkArray(d, b, s, definition.items, path)
    ELSE IF definition.kind = "object" THEN walkObject(d, b, s, definition, path)
    ELSE validateType(d, b, s, definition.type, path)

walkInjects(d, b, s, type, injects, path) ==
    IF injects = <<>> \/ s.err # NoError THEN s
    ELSE LET inj == Head(injects)
             s1  == validateDefinition(d, b,
                        StackPush(s, type, Origin(type, inj.key, inj.method)),
                        inj.definition, path)
         IN  walkInjects(d, b, IF s1.err = NoError THEN StackPop(s1) ELSE s1,
                         type, Tail(injects), path)

validateInjects(d, b, s, type, path) ==
    walkInjects(d, b, s, type, inheritedInjects(d, type), path)

\* path: the (type, set) pairs of the active validateType calls; meeting one
\* again means the recursion never ends (RangeError: call stack exceeded)
validateType(d, b, s, type, path) ==
    IF s.err # NoError THEN s
    ELSE LET resolved == resolve(b, type) IN
      IF resolved = Hang THEN [s EXCEPT !.err = Hang]
      ELSE IF StackHas(s, resolved)
      THEN [s EXCEPT !.err = "CircularDependency", !.origins = s.stack,
                     !.type = type,
                     !.resolved = IF type # resolved THEN resolved ELSE NoType]
      ELSE IF <<type, s.set>> \in path THEN [s EXCEPT !.err = "RangeError"]
      ELSE LET dat == getData(d, type)
               p2  == path \cup {<<type, s.set>>}
               s0  == IF dat.hasConstruct
                      THEN validateDefinition(d, b,
                               StackPush(s, type, Origin(type, NoKey, FALSE)),
                               Arr(dat.construct), p2)
                      ELSE s
               s1  == IF dat.hasConstruct /\ s0.err = NoError THEN StackPop(s0) ELSE s0
           IN  validateInjects(d, b, s1, type, p2)

validate(d, b, type) == validateType(d, b, NewStack, type, {})

-----------------------------------------------------------------------------
(* CodeBuilder: the factory kept on each type under the builder's BUILD     *)
(* symbol.  A compiled factory is kept as its plan: the type it constructs  *)
(* and, for every leaf of its definitions, the type whose BUILD it calls.   *)

NoPlan ==
    [type |-> NoType, construct |-> <<>>, injects |-> <<>>,
     init |-> NoKey, singleton |-> FALSE]

\* no value (undefined)
NoVal == [kind |-> "none", id |-> 0, cls |-> NoType, items |-> <<>>, keys |-> <<>>]

NoBuild == [kind |-> "none", to |-> NoType, plan |-> NoPlan, inst |-> NoVal]

\* any[BUILD] = function() { return resolved[BUILD](); }
RedirectBuild(resolved) == [NoBuild EXCEPT !.kind = "redirect", !.to = resolved]

\* type[BUILD] = function() { throw new Error("... is abstract ...") }
AbstractBuild == [NoBuild EXCEPT !.kind = "abstract"]

FactoryBuild(plan) == [NoBuild EXCEPT !.kind = "factory", !.plan = plan]

\* type[BUILD] = function() { return instance; }
InstanceBuild(instance) == [NoBuild EXCEPT !.kind = "instance", !.inst = instance]

RECURSIVE anyBuilder(_, _, _, _, _, _)
RECURSIVE arrayBuilder(_, _, _, _, _)
RECURSIVE typeBuilder(_, _, _, _, _, _)
RECURSIVE injectBuilderFrom(_, _, _, _, _)

\* the builders thread bs = [build, err] and return [bs, code]
arrayBuilder(d, b, bs, array, inprog) ==
    IF array = <<>> \/ bs.err # NoError THEN [bs |-> bs, code |-> <<>>]
    ELSE LET h == anyBuilder(d, b, bs, Head(array), FALSE, inprog)
             t == arrayBuilder(d, b, h.bs, Tail(array), inprog)
         IN  [bs |-> t.bs, code |-> <<h.code>> \o t.code]

objectBuilder(d, b, bs, object, inprog) ==
    arrayBuilder(d, b, bs, object.items, inprog)

injectBuilderFrom(d, b, bs, injects, inprog) ==
    IF injects = <<>> \/ bs.err # NoError THEN [bs |-> bs, code |-> <<>>]
    ELSE LET inj == Head(injects)
             h == IF inj.method
                  THEN LET r == arrayBuilder(d, b, bs, inj.definition.items, inprog)
                       IN  [bs |-> r.bs, code |-> Arr(r.code)]
                  ELSE anyBuilder(d, b, bs, inj.definition, FALSE, inprog)
             t == injectBuilderFrom(d, b, h.bs, Tail(injects), inprog)
         IN  [bs |-> t.bs,
              code |-> <<[key |-> inj.key, method |-> inj.method, code |-> h.code]>>
                       \o t.code]

injectBuilder(d, b, bs, type, inprog) ==
    injectBuilderFrom(d, b, bs, inheritedInjects(d, type), inprog)

\* inprog: the types whose factory is being compiled and that have no BUILD
\* yet; compiling one of them again never ends (RangeError)
typeBuilder(d, b, bs, type, rebuild, inprog) ==
    IF bs.err # NoError THEN [bs |-> bs, code |-> Leaf(type)]
    ELSE IF rebuild \/ bs.build[type].kind = "none"
    THEN IF type \in inprog
         THEN [bs |-> [bs EXCEPT !.err = "RangeError"], code |-> Leaf(type)]
         ELSE LET dat == getData(d, type) IN
           IF dat.abstract
           THEN [bs |-> [bs EXCEPT !.build[type] = AbstractBuild], code |-> Leaf(type)]
           ELSE LET c == IF dat.hasConstruct
                         THEN arrayBuilder(d, b, bs, dat.construct, inprog \cup {type})
                         ELSE [bs |-> bs, code |-> <<>>]
                    i == injectBuilder(d, b, c.bs, type, inprog \cup {type})
                    plan == [type |-> type, construct |-> c.code, injects |-> i.code,
                             init |-> dat.init, singleton |-> dat.singleton]
                IN  IF i.bs.err # NoError
                    THEN [bs |-> i.bs, code |-> Leaf(type)]
                    ELSE [bs |-> [i.bs EXCEPT !.build[type] = FactoryBuild(plan)],
                          code |-> Leaf(type)]
    ELSE [bs |-> bs, code |-> Leaf(type)]

anyBuilder(d, b, bs, any, rebuild, inprog) ==
    IF bs.err # NoError THEN [bs |-> bs, code |-> any]
    ELSE IF any.kind = "array"
    THEN LET r == arrayBuilder(d, b, bs, any.items, inprog)
         IN  [bs |-> r.bs, code |-> Arr(r.code)]
    ELSE IF any.kind = "object"
    THEN LET r == objectBuilder(d, b, bs, any, inprog)
         IN  [bs |-> r.bs, code |-> Obj(any.keys, r.code)]
    ELSE LET resolved == resolve(b, any.type) IN
         IF resolved = Hang
         THEN [bs |-> [bs EXCEPT !.err = Hang], code |-> any]
         ELSE typeBuilder(d, b,
                  IF resolved # any.type
                  THEN [bs EXCEPT !.build[any.type] = RedirectBuild(resolved)]
                  ELSE bs,
                  resolved, rebuild, inprog)

\* CodeBuilder.build(definition), as the container calls it: on a type
buildType(d, b, bld, type) ==
    anyBuilder(d, b, [build |-> bld, err |-> NoError], Leaf(type), TRUE, {}).bs

\* type[BUILD]: the own property, else the one inherited from the parent class
RECURSIVE lookupBuild(_, _)
lookupBuild(bld, type) ==
    IF type = Object THEN NoBuild
    ELSE IF bld[type].kind # "none" THEN bld[type]
    ELSE lookupBuild(bld, Parent(type))

\* type[BUILD] read through the class hierarchy instead of hasOwnProperty
getInherited(bld, type) ==
    IF lookupBuild(bld, type).kind # "none" THEN lookupBuild(bld, type)
    ELSE FactoryBuild([NoPlan EXCEPT !.type = type])

\* a fallback that keeps the instance it made
getKept(bld, type) ==
    IF bld[type].kind # "none" THEN bld[type]
    ELSE FactoryBuild([NoPlan EXCEPT !.type = type, !.singleton = TRUE])

\* CodeBuilder.get(type): the own BUILD, else function() { return new type(); }
get(bld, type) ==
    IF bld[type].kind # "none" THEN bld[type]
    ELSE FactoryBuild([NoPlan EXCEPT !.type = type])

-----------------------------------------------------------------------------
(* Running a factory.  Values are instances, deferreds (the index of the    *)
(* construction in tasks), array literals and object literals.             *)

Inst(id, cls) == [NoVal EXCEPT !.kind = "inst", !.id = id, !.cls = cls]

Deferred(task) == [NoVal EXCEPT !.kind = "deferred", !.id = task]

ArrV(items) == [NoVal EXCEPT !.kind = "array", !.items = items]

ObjV(keys, items) == [NoVal EXCEPT !.kind = "object", !.keys = keys, !.items = items]

Event(ev, inst, key, val) == [ev |-> ev, inst |-> inst, key |-> key, val |-> val]

\* what happened to an instance, added to its history
Noted(rs, inst, what) ==
    [rs EXCEPT !.journal =
        IF inst.id > Len(@)
        THEN Append(@, [cls |-> inst.cls, plan |-> NoPlan, events |-> <<what>>])
        ELSE [@ EXCEPT ![inst.id].events = Append(@, what)]]

\* the compiled statements an instance is constructed by, remembered
Planned(rs, inst, plan) == [rs EXCEPT !.journal[inst.id].plan = plan]

Log(rs, ev, inst, key, val) ==
    [Noted(rs, inst, ev) EXCEPT !.trace = Append(@, Event(ev, inst, key, val))]

Task(plan, inst, stage, waiting) ==
    [plan |-> plan, inst |-> inst, stage |-> stage, waiting |-> waiting,
     err |-> NoError, at |-> "", top |-> NoType]

\* the method as the class body defined it: it returns
methodKept(replaced, chain, key) == FALSE

\* instance[key](...) throws when the first class of the chain that has the
\* method had it replaced by declareAbstract
RECURSIVE methodThrows(_, _, _)
methodThrows(replaced, chain, key) ==
    IF chain = <<>> \/ Head(chain) = Object THEN FALSE
    ELSE IF <<Head(chain), key>> \in replaced THEN TRUE
    ELSE IF Parent(Head(chain)) = Object THEN FALSE
    ELSE methodThrows(replaced, Tail(chain), key)

\* return a deferred from the factory (self = 0) or from a then-callback of
\* the construction self, which that construction's deferred then follows
suspend(rs, self, plan, inst, stage, waiting) ==
    IF self = 0
    THEN [rs  |-> [rs EXCEPT !.tasks = Append(@, Task(plan, inst, stage, waiting))],
          val |-> Deferred(Len(rs.tasks) + 1)]
    ELSE [rs  |-> [rs EXCEPT !.tasks[self].stage = stage,
                             !.tasks[self].waiting = waiting],
          val |-> Deferred(self)]

\* let result = init; singleton; return result.then ? result.then(...) : instance
afterInjects(tr, rs, plan, inst, self) ==
    LET rs1 == IF plan.init # NoKey THEN Log(rs, "init", inst, plan.init, NoVal) ELSE rs
        rs2 == IF plan.singleton
               THEN Log([rs1 EXCEPT !.build[plan.type] = InstanceBuild(inst)],
                        "pin", inst, NoKey, NoVal)
               ELSE rs1
    IN  IF plan.init # NoKey /\ methodThrows(tr.protos, constructorChain(plan.type), plan.init)
        THEN [rs |-> [rs EXCEPT !.err = "AbstractInvocation"], val |-> NoVal]
        ELSE IF plan.init # NoKey /\ plan.type \in tr.init
        THEN suspend(rs2, self, plan, inst, "init", {})
        ELSE [rs |-> Log(rs2, "done", inst, NoKey, NoVal), val |-> inst]

RECURSIVE materialize(_, _, _, _)
RECURSIVE materializeAll(_, _, _, _)
RECURSIVE callBuild(_, _, _, _)
RECURSIVE injectAll(_, _, _, _, _, _)

\* the literal built from the values r of its items
literal(code, r) ==
    [rs  |-> r.rs,
     val |-> IF code.kind = "array" THEN ArrV(r.val) ELSE ObjV(code.keys, r.val)]

\* the value h of the first item, then those of the others
itemsAfter(tr, h, codes, active) ==
    LET t == materializeAll(tr, h.rs, codes, active)
    IN  [rs |-> t.rs, val |-> <<h.val>> \o t.val]

\* the generated code of arrayBuilder: the items, evaluated in order
materializeAll(tr, rs, codes, active) ==
    IF codes = <<>> \/ rs.err # NoError THEN [rs |-> rs, val |-> <<>>]
    ELSE itemsAfter(tr, materialize(tr, rs, Head(codes), active), Tail(codes), active)

\* the generated code of anyBuilder: a literal, or resolved[BUILD]()
materialize(tr, rs, code, active) ==
    IF rs.err # NoError THEN [rs |-> rs, val |-> NoVal]
    ELSE IF code.kind = "type"
    THEN callBuild(tr, rs, lookupBuild(rs.build, code.type), active)
    ELSE literal(code, materializeAll(tr, rs, code.items, active))

\* instance[key] = value, or instance[key](...values), v the evaluated
\* definition of the injection point
injected(tr, v, plan, inst, inj) ==
    IF v.rs.err # NoError THEN v.rs
    ELSE IF inj.method
    THEN IF methodThrows(tr.protos, constructorChain(plan.type), inj.key)
         THEN [v.rs EXCEPT !.err = "AbstractInvocation"]
         ELSE Log(v.rs, "call", inst, inj.key, v.val)
    ELSE Log(v.rs, "set", inst, inj.key, v.val)

\* promises = [ result ]: only the result of one setter is kept
pushedAlone(tr, plan, inj, t) ==
    [rs  |-> t.rs,
     val |-> IF inj.method /\ plan.type \in tr.setter THEN {inj.key} ELSE t.val]

\* no setter result is collected
pushedNone(tr, plan, inj, t) == [rs |-> t.rs, val |-> {}]

\* promises.push(result) for a setter that returned a deferred
pushed(tr, plan, inj, t) ==
    [rs  |-> t.rs,
     val |-> IF inj.method /\ plan.type \in tr.setter
             THEN {inj.key} \cup t.val ELSE t.val]

\* the injection statements of injectBuilder, in order; val collects the
\* setters whose result is awaited
injectAll(tr, rs, plan, inst, injects, active) ==
    IF injects = <<>> \/ rs.err # NoError THEN [rs |-> rs, val |-> {}]
    ELSE pushed(tr, plan, Head(injects),
             injectAll(tr,
                 injected(tr, materialize(tr, rs, Head(injects).code, active),
                          plan, inst, Head(injects)),
                 plan, inst, Tail(injects), active))

\* if (promises.length) { return Promise.all(promises).then(...) } else {...}
joinedUnawaited(tr, r, plan, inst, self) ==
    IF r.rs.err # NoError THEN [rs |-> r.rs, val |-> NoVal]
    ELSE afterInjects(tr, r.rs, plan, inst, self)

joined(tr, r, plan, inst, self) ==
    IF r.rs.err # NoError THEN [rs |-> r.rs, val |-> NoVal]
    ELSE IF r.val # {} THEN suspend(r.rs, self, plan, inst, "setters", r.val)
    ELSE afterInjects(tr, r.rs, plan, inst, self)

\* the statements after the instance is there: inject, join, init, singleton
afterConstruct(tr, rs, plan, inst, active, self) ==
    joined(tr, injectAll(tr, rs, plan, inst, plan.injects, active), plan, inst, self)

\* let instance = new type(...a); if (instance && instance.then) ... else ...
constructed(tr, a, plan, active) ==
    IF a.rs.err # NoError THEN [rs |-> a.rs, val |-> NoVal]
    ELSE LET inst == Inst(a.rs.nextId + 1, plan.type)
             rs1 == Planned(Log([a.rs EXCEPT !.nextId = @ + 1], "new", inst, NoKey, a.val),
                            inst, plan)
         IN  IF plan.type \in tr.ctor
             THEN suspend(rs1, 0, plan, inst, "ctor", {})
             ELSE afterConstruct(tr, rs1, plan, inst, active, 0)

\* active: the BUILD functions running in this call stack; calling one of
\* them again never ends (RangeError: call stack exceeded)
callBuild(tr, rs, f, active) ==
    IF rs.err # NoError THEN [rs |-> rs, val |-> NoVal]
    ELSE IF f.kind = "none" THEN [rs |-> [rs EXCEPT !.err = "TypeError"], val |-> NoVal]
    ELSE IF f.kind = "abstract"
    THEN [rs |-> [rs EXCEPT !.err = "AbstractInstantiation"], val |-> NoVal]
    ELSE IF f.kind = "instance" THEN [rs |-> rs, val |-> f.inst]
    ELSE IF f \in active
    THEN [rs |-> [rs EXCEPT !.err = "RangeError"], val |-> NoVal]
    ELSE IF f.kind = "redirect"
    THEN callBuild(tr, rs, lookupBuild(rs.build, f.to), active \cup {f})
    ELSE constructed(tr, materialize(tr, rs, Arr(f.plan.construct), active \cup {f}),
                     f.plan, active \cup {f})

Runtime(bld, n, tsk) ==
    [build |-> bld, nextId |-> n, tasks |-> tsk, trace |-> <<>>, err |-> NoError,
     journal |-> journal]

-----------------------------------------------------------------------------
(* The resolved requirement graph: from a type with no binding to the       *)
(* resolved types of the leaves of its constructor definition and of the    *)
(* injection points it is furnished with.                                   *)

RECURSIVE Leaves(_)
RECURSIVE LeavesOfSeq(_)
Leaves(definition) ==
    IF definition.kind = "type" THEN {definition.type}
    ELSE LeavesOfSeq(definition.items)

LeavesOfSeq(items) ==
    IF items = <<>> THEN {} ELSE Leaves(Head(items)) \cup LeavesOfSeq(Tail(items))

RECURSIVE LeavesOfInjects(_)
LeavesOfInjects(injects) ==
    IF injects = <<>> THEN {}
    ELSE Leaves(Head(injects).definition) \cup LeavesOfInjects(Tail(injects))

Requires(d, type) ==
    LeavesOfSeq(getData(d, type).construct) \cup LeavesOfInjects(inheritedInjects(d, type))

ResolvedRequires(d, b, type) == {resolve(b, u) : u \in Requires(d, type)}

RECURSIVE ReachedFrom(_, _, _)
ReachedFrom(edges, reached, n) ==
    IF n = 0 THEN reached
    ELSE ReachedFrom(edges,
             reached \cup UNION {edges[t] : t \in reached \cap Types}, n - 1)

\* no construction of a resolved type reaches that type again
Acyclic(d, b) ==
    LET edges == [t \in Types |-> ResolvedRequires(d, b, t)]
    IN  \A t \in Types :
            b[t] = NoType => t \notin ReachedFrom(edges, edges[t], Cardinality(Types))

-----------------------------------------------------------------------------
(* Operations                                                                *)

\* how many constructions that returned a deferred a run may hold
MaxTasks == 2


Outcome(op, type, arg, err, pre) ==
    [op |-> op, type |-> type, arg |-> arg, err |-> err, pre |-> pre,
     val |-> NoVal, trace |-> <<>>, origins |-> <<>>, culprit |-> NoType,
     resolved |-> NoType, task |-> 0]

\* the configuration calls that raised, remembered
Raised(raised, outcome) ==
    IF outcome.err # NoError THEN raised \cup {outcome.op} ELSE raised

\* a call that never returns leaves nothing more to run
Running == last.err # Hang

\* History of BoundContainer.create: per type, the instance the first
\* successful create of it as a singleton yielded (ever), the same since the
\* configuration last changed (now), and the constructions begun since (fresh)
NoneHanded ==
    [ever |-> [t \in Types |-> NoVal], now |-> [t \in Types |-> NoVal], fresh |-> {}]

\* a declaration, a bind or a new container: the configuration changed
Reconfigured(h) == [h EXCEPT !.now = [t \in Types |-> NoVal], !.fresh = {}]

Yielded(h, type, inst, current) ==
    [h EXCEPT !.ever[type] = IF @ = NoVal THEN inst ELSE @,
              !.now[type] = IF @ = NoVal /\ current THEN inst ELSE @]

\* the deferred of construction k, begun by create(top), yields its instance
Fulfilled(h, k) ==
    IF tasks[k].plan.singleton /\ tasks[k].plan.type = tasks[k].top
    THEN Yielded(h, tasks[k].top, tasks[k].inst, k \in h.fresh)
    ELSE h

\* the container's listener on Module.UPDATE: validate(type), then build(type)
onUpdate(d, b, bld, type) ==
    LET v == validate(d, b, type) IN
    IF v.err # NoError
    THEN [build |-> bld, err |-> v.err, origins |-> v.origins,
          culprit |-> v.type, resolved |-> v.resolved]
    ELSE LET r == buildType(d, b, bld, type)
         IN  [build |-> r.build, err |-> r.err, origins |-> <<>>,
              culprit |-> NoType, resolved |-> NoType]

\* Module.emit(UPDATE, type)
emit(d, b, bld, listening, type) ==
    IF listening THEN onUpdate(d, b, bld, type)
    ELSE [build |-> bld, err |-> NoError, origins |-> <<>>,
          culprit |-> NoType, resolved |-> NoType]

\* Module.emit(UPDATE, type) as the listener of the second container hears
\* it: each container validates and builds the type with its own bindings
\* and its own builder
told(o, d, type) ==
    IF o.container = "none" THEN o
    ELSE [o EXCEPT !.build = onUpdate(d, o.binding, o.build, type).build,
                   !.handed = Reconfigured(@)]

\* declareInject without the check of data.construct and without the emit
DeclareInjectReplacing(type, key, injects) ==
    /\ Running
    /\ left.declare > 0
    /\ data' = [createData(data, type) EXCEPT ![type].hasConstruct = TRUE,
                                              ![type].construct = injects]
    /\ order' = createOrder(data, order, type)
    /\ last' = Outcome("declareInject", type, NoKey, NoError, Acyclic(data, binding))
    /\ left' = [left EXCEPT !.declare = @ - 1]
    /\ UNCHANGED <<binding, build, container, nextId, tasks, traits, protos, handed,
                   journal, other>>

\* declareInject taking the injection point back when a listener throws
DeclareInjectUndone(type, key, injects) ==
    /\ Running
    /\ left.declare > 0
    /\ key # NoKey
    /\ LET created == createData(data, type)
           d1 == [created EXCEPT ![type].injects =
                     Append(@, [key |-> key,
                                definition |-> IF IsMethod(type, key)
                                               THEN Arr(injects) ELSE injects[1],
                                method |-> IsMethod(type, key)])]
           e == emit(d1, binding, build, container # "none", type)
       IN  /\ data' = IF e.err = NoError THEN d1 ELSE data
           /\ order' = IF e.err = NoError THEN createOrder(data, order, type) ELSE order
           /\ build' = e.build
           /\ last' = [Outcome("declareInject", type, key, e.err,
                               Acyclic(data, binding))
                         EXCEPT !.origins = e.origins, !.culprit = e.culprit,
                                !.resolved = e.resolved]
    /\ left' = [left EXCEPT !.declare = @ - 1, !.raised = Raised(@, last')]
    /\ other' = told(other, data', type)
    /\ UNCHANGED <<binding, container, nextId, tasks, traits, protos, handed,
                   journal>>

DeclareInject(type, key, injects) ==
    /\ Running
    /\ left.declare > 0
    /\ LET pre == Acyclic(data, binding)
           rejected ==
               IF key = NoKey
               THEN IF data[type].hasConstruct THEN "DuplicateConstructorInjection"
                    ELSE NoError
               ELSE IF ~IsMethod(type, key) /\ Len(injects) > 1
                    THEN "MultiParameterPropertyInjection"
                    ELSE NoError
           created == createData(data, type)
           d1 == IF key = NoKey
                 THEN [created EXCEPT ![type].hasConstruct = TRUE,
                                      ![type].construct = injects]
                 ELSE IF IsMethod(type, key)
                 THEN [created EXCEPT ![type].injects =
                          Append(@, [key |-> key, definition |-> Arr(injects),
                                     method |-> TRUE])]
                 ELSE [created EXCEPT ![type].injects =
                          Append(@, [key |-> key, definition |-> injects[1],
                                     method |-> FALSE])]
           e == emit(d1, binding, build, container # "none", type)
       IN  IF rejected # NoError
           THEN /\ last' = Outcome("declareInject", type, key, rejected, pre)
                /\ UNCHANGED <<data, order, build>>
           ELSE /\ data' = d1
                /\ order' = createOrder(data, order, type)
                /\ build' = e.build
                /\ last' = [Outcome("declareInject", type, key, e.err, pre)
                              EXCEPT !.origins = e.origins, !.culprit = e.culprit,
                                !.resolved = e.resolved]
    /\ left' = [left EXCEPT !.declare = @ - 1, !.raised = Raised(@, last')]
    /\ handed' = Reconfigured(handed)
    /\ UNCHANGED journal
    /\ other' = IF last'.err \in {"DuplicateConstructorInjection",
                                  "MultiParameterPropertyInjection"}
              THEN other ELSE told(other, data', type)
    /\ UNCHANGED <<binding, container, nextId, tasks, traits, protos>>

RECURSIVE prebuild(_, _, _, _)
prebuild(d, b, r, types) ==
    IF types = <<>> \/ r.err # NoError THEN r
    ELSE prebuild(d, b, onUpdate(d, b, r.build, Head(types)), Tail(types))

\* new BoundContainer(module): listen, then validate and build every known type
NewContainer ==
    /\ Running
    /\ container = "none"
    /\ LET r == prebuild(data, binding,
                         [build |-> build, err |-> NoError, origins |-> <<>>,
                          culprit |-> NoType, resolved |-> NoType], order)
       IN  /\ build' = r.build
           /\ container' = IF r.err = NoError THEN "ok" ELSE "zombie"
           /\ left' = [left EXCEPT !.raised =
                          IF r.err # NoError THEN @ \cup {"new"} ELSE @]
           /\ last' = [Outcome("new", NoType, NoKey, r.err, Acyclic(data, binding))
                         EXCEPT !.origins = r.origins, !.culprit = r.culprit,
                                !.resolved = r.resolved]
    /\ handed' = Reconfigured(handed)
    /\ UNCHANGED journal
    /\ UNCHANGED <<other, data, order, binding, nextId, tasks, traits, protos>>

Bind(type, implementation) ==
    /\ Running
    /\ container = "ok"
    /\ left.bind > 0
    /\ LET b1 == [binding EXCEPT ![type] = implementation]
           v  == validate(data, b1, implementation)
           r  == buildType(data, b1, build, type)
       IN  /\ binding' = b1
           /\ build' = IF v.err = NoError THEN r.build ELSE build
           /\ last' = [Outcome("bind", type, implementation,
                               IF v.err = NoError THEN r.err ELSE v.err,
                               Acyclic(data, binding))
                         EXCEPT !.origins = v.origins, !.culprit = v.type,
                                !.resolved = v.resolved]
    /\ left' = [left EXCEPT !.bind = @ - 1, !.raised = Raised(@, last')]
    /\ handed' = Reconfigured(handed)
    /\ UNCHANGED journal
    /\ UNCHANGED <<other, data, order, container, nextId, tasks, traits, protos>>

\* the container the next calls are made on
Facing(o) ==
    /\ binding' = o.binding
    /\ build' = o.build
    /\ container' = o.container
    /\ handed' = o.handed
    /\ last' = Outcome("switch", NoType, NoKey, NoError, Acyclic(data, o.binding))
    /\ UNCHANGED <<data, order, nextId, tasks, traits, protos, left, journal>>

\* one BUILD property for the builders of both containers
SwitchSharing ==
    /\ Running
    /\ \A k \in 1..Len(tasks) : tasks[k].stage \in {"fulfilled", "rejected"}
    /\ other' = [binding |-> binding, build |-> build, container |-> container,
                 handed |-> handed]
    /\ Facing([other EXCEPT !.build = build])

\* the caller turns from one container to the other: each has its own
\* BINDING map and its own CodeBuilder, with a BUILD symbol of its own
Switch ==
    /\ Running
    /\ \A k \in 1..Len(tasks) : tasks[k].stage \in {"fulfilled", "rejected"}
    /\ other' = [binding |-> binding, build |-> build, container |-> container,
                 handed |-> handed]
    /\ Facing(other)

\* BoundContainer.resolve(type): the type returned is kept in last.arg
Resolve(type) ==
    /\ Running
    /\ container = "ok"
    /\ last' = Outcome("resolve", type, resolve(binding, type),
                       IF resolve(binding, type) = Hang THEN Hang ELSE NoError,
                       Acyclic(data, binding))
    /\ UNCHANGED <<other, data, order, binding, build, container, nextId, tasks, traits,
                   protos, left, handed, journal>>

\* Module.declareAbstract(type, key): the record is marked before the key is
\* looked at, and a method declaration returns before the emit
DeclareAbstract(type, key) ==
    /\ Running
    /\ left.declare > 0
    /\ LET pre == Acyclic(data, binding)
           d1 == [createData(data, type) EXCEPT ![type].abstract = TRUE]
           e == emit(d1, binding, build, container # "none", type)
       IN  /\ data' = d1
           /\ order' = createOrder(data, order, type)
           /\ IF key # NoKey /\ ~IsMethod(type, key)
              THEN /\ last' = Outcome("declareAbstract", type, key,
                                      "InvalidAbstractTarget", pre)
                   /\ UNCHANGED <<build, protos>>
              ELSE IF key # NoKey
              THEN /\ protos' = protos \cup {<<type, key>>}
                   /\ last' = Outcome("declareAbstract", type, key, NoError, pre)
                   /\ UNCHANGED build
              ELSE /\ build' = e.build
                   /\ last' = [Outcome("declareAbstract", type, key, e.err, pre)
                                 EXCEPT !.origins = e.origins, !.culprit = e.culprit,
                                !.resolved = e.resolved]
                   /\ UNCHANGED protos
    /\ left' = [left EXCEPT !.declare = @ - 1, !.raised = Raised(@, last')]
    /\ handed' = Reconfigured(handed)
    /\ UNCHANGED journal
    /\ other' = IF key # NoKey THEN other ELSE told(other, data', type)
    /\ UNCHANGED <<binding, container, nextId, tasks, traits>>

DeclareSingleton(type) ==
    /\ Running
    /\ left.declare > 0
    /\ LET d1 == [createData(data, type) EXCEPT ![type].singleton = TRUE]
           e == emit(d1, binding, build, container # "none", type)
       IN  /\ data' = d1
           /\ order' = createOrder(data, order, type)
           /\ build' = e.build
           /\ last' = [Outcome("declareSingleton", type, NoKey, e.err,
                               Acyclic(data, binding))
                         EXCEPT !.origins = e.origins, !.culprit = e.culprit,
                                !.resolved = e.resolved]
    /\ left' = [left EXCEPT !.declare = @ - 1, !.raised = Raised(@, last')]
    /\ handed' = Reconfigured(handed)
    /\ UNCHANGED journal
    /\ other' = told(other, data', type)
    /\ UNCHANGED <<binding, container, nextId, tasks, traits, protos>>

DeclareInit(type, key) ==
    /\ Running
    /\ left.declare > 0
    /\ LET pre == Acyclic(data, binding)
           created == createData(data, type)
           d1 == [created EXCEPT ![type].init = key]
           e == emit(d1, binding, build, container # "none", type)
       IN  IF ~IsMethod(type, key) \/ data[type].init # NoKey
           THEN /\ data' = created
                /\ order' = createOrder(data, order, type)
                /\ last' = Outcome("declareInit", type, key,
                                   IF ~IsMethod(type, key) THEN "InvalidInitTarget"
                                   ELSE "DuplicateInit", pre)
                /\ UNCHANGED build
           ELSE /\ data' = d1
                /\ order' = createOrder(data, order, type)
                /\ build' = e.build
                /\ last' = [Outcome("declareInit", type, key, e.err, pre)
                              EXCEPT !.origins = e.origins, !.culprit = e.culprit,
                                !.resolved = e.resolved]
    /\ left' = [left EXCEPT !.declare = @ - 1, !.raised = Raised(@, last')]
    /\ handed' = Reconfigured(handed)
    /\ UNCHANGED journal
    /\ other' = IF last'.err \in {"InvalidInitTarget", "DuplicateInit"}
              THEN other ELSE told(other, data', type)
    /\ UNCHANGED <<binding, container, nextId, tasks, traits, protos>>

\* what the classes do when called, and the prototypes as they are now
Env == [ctor |-> traits.ctor, setter |-> traits.setter, init |-> traits.init,
        protos |-> protos]

\* create returned r.val, threw r.rs.err or began construction r.val.id
Created(type, r) ==
    /\ Len(r.rs.tasks) <= MaxTasks
    /\ build' = r.rs.build
    /\ nextId' = r.rs.nextId
    /\ tasks' = IF r.rs.err = NoError /\ r.val.kind = "deferred"
                THEN [r.rs.tasks EXCEPT ![r.val.id].top = type]
                ELSE r.rs.tasks
    /\ last' = [Outcome("create", type, NoKey, r.rs.err, Acyclic(data, binding))
                  EXCEPT !.val = r.val, !.trace = r.rs.trace,
                         !.task = IF r.rs.err = NoError /\ r.val.kind = "deferred"
                                  THEN r.val.id ELSE 0]
    /\ journal' = r.rs.journal
    /\ handed' =
           IF r.rs.err = NoError /\ r.val.kind = "deferred"
           THEN [handed EXCEPT !.fresh = @ \cup {r.val.id}]
           ELSE IF /\ r.rs.err = NoError
                   /\ r.val.kind = "inst"
                   /\ r.val.cls = type
                   /\ data[type].singleton
           THEN Yielded(handed, type, r.val, TRUE)
           ELSE handed

\* BoundContainer.create(type): this[BUILDER].get(type)()
Create(type) ==
    /\ Running
    /\ container = "ok"
    /\ left.create > 0
    /\ Created(type, callBuild(Env, Runtime(build, nextId, tasks), get(build, type), {}))
    /\ left' = [left EXCEPT !.create = @ - 1]
    /\ UNCHANGED <<other, data, order, binding, container, traits, protos>>

\* a then-callback of construction k ran: it threw, returned the instance, or
\* returned a further deferred
Continued(k, r) ==
    /\ Len(r.rs.tasks) <= MaxTasks
    /\ build' = r.rs.build
    /\ nextId' = r.rs.nextId
    /\ tasks' = IF r.rs.err # NoError
                THEN [r.rs.tasks EXCEPT ![k].stage = "rejected", ![k].err = r.rs.err,
                                        ![k].at = "callback"]
                ELSE IF r.val.kind = "inst"
                THEN [r.rs.tasks EXCEPT ![k].stage = "fulfilled"]
                ELSE r.rs.tasks
    /\ last' = [Outcome("settle", tasks[k].top, NoKey, r.rs.err, Acyclic(data, binding))
                  EXCEPT !.val = r.val, !.trace = r.rs.trace, !.task = k]
    /\ journal' = r.rs.journal
    /\ handed' = IF r.rs.err = NoError /\ r.val.kind = "inst"
                 THEN Fulfilled(handed, k) ELSE handed
    /\ UNCHANGED <<other, data, order, binding, container, traits, protos, left>>

\* a rejection that leaves the construction where it was
Dropped(k, err) ==
    /\ last' = [Outcome("settle", tasks[k].top, NoKey, err, Acyclic(data, binding))
                  EXCEPT !.task = k]
    /\ journal' = [journal EXCEPT ![tasks[k].inst.id].events =
                                      Append(@, tasks[k].stage \o " rejected")]
    /\ UNCHANGED <<other, data, order, binding, build, container, nextId, traits, protos, left,
                   handed, tasks>>

Rejected(k, err) ==
    /\ tasks' = [tasks EXCEPT ![k].stage = "rejected", ![k].err = err,
                              ![k].at = tasks[k].stage]
    /\ last' = [Outcome("settle", tasks[k].top, NoKey, err, Acyclic(data, binding))
                  EXCEPT !.task = k]
    /\ journal' = [journal EXCEPT ![tasks[k].inst.id].events =
                                      Append(@, tasks[k].stage \o " rejected")]
    /\ UNCHANGED <<other, data, order, binding, build, container, nextId, traits, protos, left,
                   handed>>

\* the deferred a constructor returned resolves: instance.then(function(instance) ...)
CtorResolve(k) ==
    /\ Running
    /\ tasks[k].stage = "ctor"
    /\ Continued(k, afterConstruct(Env,
                        Noted(Runtime(build, nextId, tasks), tasks[k].inst, "ctor resolved"),
                        tasks[k].plan, tasks[k].inst, {}, k))

CtorReject(k) ==
    /\ Running
    /\ tasks[k].stage = "ctor"
    /\ Rejected(k, "ConstructorRejected")

\* one of the deferreds of Promise.all(promises) resolves; the last one runs
\* the callback
SetterResolve(k, key) ==
    /\ Running
    /\ tasks[k].stage = "setters"
    /\ key \in tasks[k].waiting
    /\ IF tasks[k].waiting = {key}
       THEN Continued(k, afterInjects(Env,
                           Noted(Runtime(build, nextId, tasks), tasks[k].inst,
                                 "setters resolved"),
                           tasks[k].plan, tasks[k].inst, k))
       ELSE /\ tasks' = [tasks EXCEPT ![k].waiting = @ \ {key}]
            /\ journal' = [journal EXCEPT ![tasks[k].inst.id].events =
                                              Append(@, "setters resolved")]
            /\ last' = [Outcome("settle", tasks[k].top, key, NoError,
                                Acyclic(data, binding)) EXCEPT !.task = k]
            /\ UNCHANGED <<other, data, order, binding, build, container, nextId, traits,
                           protos, left, handed>>

SetterReject(k, key) ==
    /\ Running
    /\ tasks[k].stage = "setters"
    /\ key \in tasks[k].waiting
    /\ Rejected(k, "SetterRejected")

\* the deferred init returned resolves: result.then(function() { return instance; })
InitResolve(k) ==
    /\ Running
    /\ tasks[k].stage = "init"
    /\ tasks' = [tasks EXCEPT ![k].stage = "fulfilled"]
    /\ last' = [Outcome("settle", tasks[k].top, NoKey, NoError, Acyclic(data, binding))
                  EXCEPT !.val = tasks[k].inst, !.task = k]
    /\ handed' = Fulfilled(handed, k)
    /\ journal' = [journal EXCEPT ![tasks[k].inst.id].events =
                                      @ \o <<"init resolved", "done">>]
    /\ UNCHANGED <<other, data, order, binding, build, container, nextId, traits, protos, left>>

InitReject(k) ==
    /\ Running
    /\ tasks[k].stage = "init"
    /\ Rejected(k, "InitRejected")

-----------------------------------------------------------------------------
(* Specifications                                                            *)

NoTraits == [ctor |-> {}, setter |-> {}, init |-> {}]

\* new Module(), and new BoundContainer(module) when attached
Start(attached, behaviour, budget) ==
    /\ data = [t \in Types |-> NoData]
    /\ order = <<>>
    /\ binding = [t \in Types |-> NoType]
    /\ build = [t \in Types |-> NoBuild]
    /\ container = IF attached THEN "ok" ELSE "none"
    /\ nextId = 0
    /\ tasks = <<>>
    /\ traits = behaviour
    /\ protos = {}
    /\ left = budget
    /\ last = Outcome("init", NoType, NoKey, NoError, TRUE)
    /\ handed = NoneHanded
    /\ journal = <<>>
    /\ other = [binding |-> [t \in Types |-> NoType],
                build |-> [t \in Types |-> NoBuild],
                container |-> "none", handed |-> NoneHanded]

Unbound == [t \in Types |-> NoType]

Budget(declare, bind, create) ==
    [declare |-> declare, bind |-> bind, create |-> create, raised |-> {}]

(* Declarations against a store a container listens to, no bindings:       *)
(* a property and a setter take a type, a constructor a nested literal.    *)

MaxDeclare == 3

DeclareTypes == {"A", "B", "C"}

Nested(t) == Obj(<<"k">>, <<Arr(<<Leaf(t), Leaf(t)>>)>>)

DeclareArgs(key) ==
    IF key = NoKey
    THEN {<<Nested(t)>> : t \in DeclareTypes}
    ELSE {<<Leaf(t)>> : t \in DeclareTypes}

InitDeclare ==
    Start(TRUE, NoTraits, Budget(MaxDeclare, 0, 0))

NextDeclare ==
    \E t \in DeclareTypes, key \in {NoKey, "a", "m"} :
        \E injects \in DeclareArgs(key) : DeclareInject(t, key, injects)

SpecDeclare == InitDeclare /\ [][NextDeclare]_vars

\* C2: an operation raises CircularDependency only when the resolved
\* requirement graph has a cycle: a type reached twice through sibling
\* injection points or the two branches of a diamond is accepted.
C2_CircularOnlyOnCycle ==
    last.err = "CircularDependency" => ~Acyclic(data, binding)

\* C3: with a container attached and no bindings, the declareInject that
\* closes a cycle among the declared requirements raises CircularDependency
\* from that very call.
C3_DeclareClosingCycleRaises ==
    (/\ last.op = "declareInject"
     /\ container # "none"
     /\ binding = Unbound
     /\ last.pre
     /\ ~Acyclic(data, binding))
    => last.err = "CircularDependency"

\* a third declaration closes a cycle of three types and is refused
C3_Witness ==
    /\ last.op = "declareInject"
    /\ last.pre
    /\ ~Acyclic(data, binding)
    /\ last.err = "CircularDependency"
    /\ Len(last.origins) = 3

-----------------------------------------------------------------------------
(* Binding: property injections of a type, binds and creates               *)

BindDeclares == 1

MaxBind == 3

BindCreates == 1

InitBind == Start(TRUE, NoTraits, Budget(BindDeclares, MaxBind, BindCreates))

NextBind ==
    \/ \E t \in Types, u \in Types : DeclareInject(t, "a", <<Leaf(u)>>)
    \/ \E t \in Types, u \in Types : Bind(t, u)
    \/ \E t \in Types : Create(t)

SpecBind == InitBind /\ [][NextBind]_vars

\* C1: a bind that closes a cycle of the resolved requirement graph raises:
\* whenever bind returns without raising, the graph is acyclic.
C1_BindClosingCycleRaises ==
    (last.op = "bind" /\ last.pre /\ last.err = NoError) => Acyclic(data, binding)

\* C7: after any sequence of successful binds, create(T) returns an instance
\* of resolve(T) as resolve reports it at the time of the call.
C7_CreateReturnsResolved ==
    (/\ last.op = "create"
     /\ left.raised = {}
     /\ last.err = NoError
     /\ last.val.kind = "inst")
    => last.val.cls = resolve(binding, last.type)

\* the type the injection point key of an instance of type was declared with
RequestedAt(d, type, key) ==
    LET injects == inheritedInjects(d, type)
        i == CHOOSE j \in 1..Len(injects) : injects[j].key = key
    IN  injects[i].definition.type

\* C8: the value create(X) supplies at an injection point referencing A is an
\* instance of resolve(A) by the binding table at the time of the create call.
C8_InjectedIsResolved ==
    (last.op = "create" /\ left.raised = {} /\ last.err = NoError)
    => \A i \in 1..Len(last.trace) :
           last.trace[i].ev = "set"
           => last.trace[i].val.cls =
                  resolve(binding, RequestedAt(data, last.trace[i].inst.cls,
                                               last.trace[i].key))

\* C11: create(B) of a subclass that has no record of its own injects the
\* injection points its ancestors declare into the new instance.
C11_InheritedWithoutRecord ==
    (/\ last.op = "create"
     /\ left.raised = {}
     /\ last.err = NoError
     /\ last.val.kind = "inst"
     /\ binding[last.type] = NoType
     /\ ~data[last.type].known)
    => \A j \in 1..Len(inheritedInjects(data, last.type)) :
           \E i \in 1..Len(last.trace) :
               /\ last.trace[i].ev \in {"set", "call"}
               /\ last.trace[i].inst = last.val
               /\ last.trace[i].key = inheritedInjects(data, last.type)[j].key

-----------------------------------------------------------------------------
(* Abstract types: declarations before and after the container is created, *)
(* a bind, a create; the constructor of D returns a deferred.              *)

AbstractDeclares == 2

AbstractBinds == 1

AbstractCreates == 1

AbstractTraits == [NoTraits EXCEPT !.ctor = {"D"}]

InitAbstract ==
    Start(FALSE, AbstractTraits, Budget(AbstractDeclares, AbstractBinds, AbstractCreates))

NextAbstract ==
    \/ NewContainer
    \/ \E t \in {"B", "D"} : DeclareInject(t, "a", <<Leaf("A")>>)
    \/ \E t \in {"A", "B"}, key \in {NoKey, "m"} : DeclareAbstract(t, key)
    \/ \E t \in Types, u \in Types : Bind(t, u)
    \/ \E t \in Types : Create(t)
    \/ \E k \in 1..Len(tasks) : CtorResolve(k) \/ CtorReject(k)

SpecAbstract == InitAbstract /\ [][NextAbstract]_vars

\* C9: create(T) of a type whose resolved type is marked abstract in the
\* store at the time of the call fails with AbstractInstantiation and runs no
\* constructor, whether the declaration came before or after the container.
C9_AbstractNeverCreated ==
    (/\ last.op = "create"
     /\ left.raised = {}
     /\ data[resolve(binding, last.type)].abstract)
    => (last.err = "AbstractInstantiation" /\ last.trace = <<>>)

\* C21: create(C) of a class C that extends a class marked abstract, is not
\* marked abstract itself, has no binding and requires no type that is or
\* resolves to an abstract one, returns an instance of C (the requirement
\* graph having no cycle).
C21_AbstractNotInherited ==
    (/\ last.op = "create"
     /\ last.type = "C"
     /\ left.raised = {}
     /\ binding["C"] = NoType
     /\ data["B"].abstract
     /\ ~data["C"].abstract
     /\ Acyclic(data, binding)
     /\ \A u \in Requires(data, "C") :
            ~data[u].abstract /\ ~data[resolve(binding, u)].abstract)
    => /\ last.err = NoError
       /\ last.val.kind = "inst"
       /\ last.val.cls = "C"

\* create(C) returned an instance although the class form marked B abstract
\* and B's procedure was compiled as the throwing one
C21_Witness ==
    /\ last.op = "create"
    /\ last.type = "C"
    /\ last.err = NoError
    /\ last.val.kind = "inst"
    /\ last.val.cls = "C"
    /\ data["B"].abstract
    /\ build["B"] = AbstractBuild
    /\ left.raised = {}

\* C30: after a declareInject or a declareAbstract, with or without a
\* method key, that changed the record of a type and returned, the container
\* attached to the store holds for the type the procedure compiled from the
\* record as it is now.
C30_DeclarationNotifies ==
    (/\ last.op \in {"declareInject", "declareAbstract"}
     /\ last.err = NoError
     /\ container = "ok")
    => build[last.type] = buildType(data, binding, build, last.type).build[last.type]

\* X requires, at a constructor parameter or an injection point, a type that
\* is abstract and has no binding
AbstractDependency(d, b, type) ==
    \E u \in Requires(d, type) : b[u] = NoType /\ d[u].abstract

\* C10: create(X) of a concrete type X that requires an abstract type with no
\* binding fails with AbstractInstantiation: at once, or by rejecting the
\* deferred the create returned when X's constructor returned a deferred; no
\* step of the construction makes an instance of an abstract type.
C10_AbstractDependencyFails ==
    (/\ last.op \in {"create", "settle"}
     /\ left.raised = {}
     /\ binding[last.type] = NoType
     /\ ~data[last.type].abstract
     /\ AbstractDependency(data, binding, last.type))
    => /\ \A i \in 1..Len(last.trace) :
              last.trace[i].ev = "new" => ~data[last.trace[i].inst.cls].abstract
       /\ last.op = "create"
              => \/ last.err = "AbstractInstantiation"
                 \/ /\ last.val.kind = "deferred"
                    /\ tasks[last.val.id].stage = "ctor"
                    /\ tasks[last.val.id].inst.cls = last.type

\* C20: once a method of a type was declared abstract, with or without a
\* container, the type's record is marked abstract and the method throws
\* AbstractInvocation on every instance of the type that inherits it.
C20_AbstractMethodStands ==
    \A t \in Types, key \in MethodKeys :
        (<<t, key>> \in protos
         \/ (last.op = "declareAbstract" /\ last.type = t /\ last.arg = key))
        => /\ data[t].abstract
           /\ \A u \in Types :
                  t \in {constructorChain(u)[i] : i \in 1..Len(constructorChain(u))}
                  => methodThrows(protos, constructorChain(u), key)

\* a method of B was declared abstract while no container existed
C20_Witness ==
    /\ last.op = "declareAbstract"
    /\ last.arg = "m"
    /\ last.type = "B"
    /\ container = "none"
    /\ methodThrows(protos, constructorChain("C"), "m")

-----------------------------------------------------------------------------
(* Singletons: declarations, a bind, creates and the settling of the       *)
(* deferreds; the constructor of A, the setter and the init of B return a  *)
(* deferred.                                                                *)

SingletonDeclares == 2

SingletonBinds == 1

SingletonCreates == 3

SingletonTypes == {"A", "B"}

SingletonTraits == [ctor |-> {"A"}, setter |-> {"B"}, init |-> {"B"}]

InitSingleton ==
    Start(TRUE, SingletonTraits,
          Budget(SingletonDeclares, SingletonBinds, SingletonCreates))

NextSingleton ==
    \/ \E t \in SingletonTypes : DeclareSingleton(t)
    \/ \E t \in SingletonTypes : DeclareInit(t, "i")
    \/ \E key \in {"a", "m"} : DeclareInject("B", key, <<Leaf("A")>>)
    \/ \E t \in SingletonTypes : Bind("D", t)
    \/ \E t \in SingletonTypes : Create(t)
    \/ \E k \in 1..Len(tasks) :
          \/ CtorResolve(k)
          \/ CtorReject(k)
          \/ InitResolve(k)
          \/ InitReject(k)
          \/ \E key \in MethodKeys : SetterResolve(k, key) \/ SetterReject(k, key)

SpecSingleton == InitSingleton /\ [][NextSingleton]_vars

\* the instance a value returned by create is or, for a deferred, is to yield
Settles(val) == IF val.kind = "deferred" THEN tasks[val.id].inst ELSE val

\* C4: once a create(T) has constructed the singleton T, every later
\* create(T) returns that instance, whatever binds and declarations were
\* made in between.
C4_SingletonAcrossConfiguration ==
    (/\ last.op = "create"
     /\ left.raised = {}
     /\ binding[last.type] = NoType
     /\ data[last.type].singleton
     /\ handed.ever[last.type] # NoVal)
    => (last.err = NoError /\ Settles(last.val) = handed.ever[last.type])

\* C5: with no configuration change in between, a create(T) of a singleton T
\* issued after an earlier one has settled yields the instance that one
\* yielded, and a dependent requiring T is supplied with that instance.
C5_SingletonIdentity ==
    (/\ last.op \in {"create", "settle"}
     /\ left.raised = {})
    => /\ (/\ last.op = "create"
           /\ binding[last.type] = NoType
           /\ data[last.type].singleton
           /\ handed.now[last.type] # NoVal)
          => (last.err = NoError /\ Settles(last.val) = handed.now[last.type])
       /\ \A i \in 1..Len(last.trace) :
             (/\ last.trace[i].ev = "set"
              /\ last.trace[i].val.kind \in {"inst", "deferred"}
              /\ data[Settles(last.trace[i].val).cls].singleton
              /\ handed.now[Settles(last.trace[i].val).cls] # NoVal)
             => Settles(last.trace[i].val) = handed.now[Settles(last.trace[i].val).cls]

\* C6: the procedure of a singleton is replaced by the one returning the
\* instance only once init has succeeded, the deferred it returned included:
\* no procedure returns an instance whose construction is pending or failed,
\* and no create returns an instance whose init was rejected.
C6_PinnedOnlyAfterInit ==
    /\ \A t \in Types : \A k \in 1..Len(tasks) :
          (build[t].kind = "instance" /\ tasks[k].inst = build[t].inst)
          => tasks[k].stage = "fulfilled"
    /\ \A k \in 1..Len(tasks) :
          (last.op = "create" /\ last.val = tasks[k].inst)
          => tasks[k].stage # "rejected"

\* C16: no create returns an instance whose lifecycle has not finished
\* successfully: an instance whose construction is still awaiting a deferred,
\* or was rejected, is not handed out.
C16_OnlyFinishedHandedOut ==
    (last.op = "create" /\ last.err = NoError /\ last.val.kind = "inst")
    => \A k \in 1..Len(tasks) :
           tasks[k].inst = last.val => tasks[k].stage = "fulfilled"

\* the constructions create(type) began earlier, all of them still pending
\* and begun since the configuration last changed
AllPending(type) ==
    LET earlier == {k \in 1..Len(tasks) : tasks[k].top = type /\ k # last.task}
    IN  /\ earlier # {}
        /\ \A k \in earlier :
               /\ tasks[k].stage \in {"ctor", "setters", "init"}
               /\ k \in handed.fresh
               /\ tasks[k].plan.singleton

\* C17: a create(T) of a singleton issued while the earlier constructions of
\* T are all unsettled constructs an instance of its own, and the
\* construction that finishes is the one later creates return.
C17_ConcurrentSingletonCreates ==
    /\ (/\ last.op = "create"
        /\ left.raised = {}
        /\ binding[last.type] = NoType
        /\ data[last.type].singleton
        /\ AllPending(last.type))
       => /\ last.err = NoError
          /\ \E i \in 1..Len(last.trace) :
                 /\ last.trace[i].ev = "new"
                 /\ last.trace[i].inst = Settles(last.val)
                 /\ last.trace[i].inst.cls = last.type
    /\ (/\ last.op = "settle"
        /\ left.raised = {}
        /\ last.err = NoError
        /\ last.val.kind = "inst"
        /\ last.task \in handed.fresh
        /\ tasks[last.task].plan.singleton)
       => build[last.val.cls] = InstanceBuild(last.val)

\* C25: create(T) of a type with no requirement, declared or inherited, no
\* binding and no singleton or abstract mark, a type the store never saw
\* included, constructs an instance of T with no argument and injects
\* nothing; the instance is made by that very call, so no two creates
\* return the same one.
C25_PlainCreate ==
    (/\ last.op = "create"
     /\ left.raised = {}
     /\ binding[last.type] = NoType
     /\ Requires(data, last.type) = {}
     /\ ~data[last.type].singleton
     /\ ~data[last.type].abstract)
    => /\ last.err = NoError
       /\ Settles(last.val).cls = last.type
       /\ \E n \in 1..Len(last.trace) :
              /\ last.trace[n].ev = "new"
              /\ last.trace[n].inst = Settles(last.val)
              /\ last.trace[n].val = ArrV(<<>>)
       /\ \A n \in 1..Len(last.trace) : last.trace[n].ev \notin {"set", "call"}
       /\ \A k \in 1..Len(tasks) : k # last.task => tasks[k].inst # Settles(last.val)
       /\ \A t \in Types : handed.ever[t] # Settles(last.val)

\* a second create of B, a class the store never saw, returned a second
\* instance
C25_Witness ==
    /\ last.op = "create"
    /\ last.type = "B"
    /\ ~data["B"].known
    /\ last.val.kind = "inst"
    /\ last.val.id = 2
    /\ journal[1].cls = "B"
    /\ journal[1].events = <<"new", "done">>

-----------------------------------------------------------------------------
(* The lifecycle of a construction: A's constructor, setters and init all  *)
(* return deferreds, B's setters do, D's init does; A requires B, B        *)
(* requires D.  No singletons.                                             *)

LifeDeclares == 3

LifeCreates == 2

LifeTraits == [ctor |-> {"A"}, setter |-> {"A", "B"}, init |-> {"A", "D"}]

InitLife == Start(TRUE, LifeTraits, Budget(LifeDeclares, 0, LifeCreates))

NextLife ==
    \/ \E key \in {"a", "m"} : DeclareInject("A", key, <<Leaf("B")>>)
    \/ \E key \in {"a", "m"} : DeclareInject("B", key, <<Leaf("D")>>)
    \/ \E t \in {"A", "D"} : DeclareInit(t, "i")
    \/ \E t \in {"A", "B", "D"} : Create(t)
    \/ \E k \in 1..Len(tasks) :
          \/ CtorResolve(k)
          \/ CtorReject(k)
          \/ InitResolve(k)
          \/ InitReject(k)
          \/ \E key \in MethodKeys : SetterResolve(k, key) \/ SetterReject(k, key)

SpecLife == InitLife /\ [][NextLife]_vars

\* the positions before n of the history e that hold one of the events
Before(e, n, events) == {j \in 1..(n - 1) : e[j] \in events}

\* the positions of the history e that hold one of the events
Among(e, events) == Before(e, Len(e) + 1, events)

\* at position n every injection point of the plan has been performed and
\* every deferred a setter returned has resolved
InjectionsOver(j, n) ==
    /\ Cardinality(Before(j.events, n, {"set", "call"})) = Len(j.plan.injects)
    /\ j.cls \in traits.setter
           => Cardinality(Before(j.events, n, {"setters resolved"}))
                  = Cardinality(Before(j.events, n, {"call"}))

\* C13: in every construction the constructor's value, or the deferred it
\* returned, is there before any injection point is performed; every
\* injection point is performed and every deferred a setter returned has
\* resolved before init is invoked; init is invoked at most once, and once
\* when the construction finishes; the deferred of init has resolved before
\* the result of the create that ran the construction is delivered.
C13_LifecycleOrder ==
    /\ \A id \in 1..Len(journal) :
          LET j == journal[id]
              e == j.events
          IN  /\ e[1] = "new"
              /\ \A n \in Among(e, {"set", "call", "init"}) :
                     j.cls \in traits.ctor => Before(e, n, {"ctor resolved"}) # {}
              /\ \A n \in Among(e, {"init"}) : InjectionsOver(j, n)
              /\ Cardinality(Among(e, {"init"})) <= 1
              /\ \A n \in Among(e, {"done"}) :
                     /\ InjectionsOver(j, n)
                     /\ j.plan.init # NoKey => Before(e, n, {"init"}) # {}
                     /\ (j.plan.init # NoKey /\ j.cls \in traits.init)
                            => Before(e, n, {"init resolved"}) # {}
              /\ \A n \in Among(e, {"init resolved"}) : Before(e, n, {"init"}) # {}
    /\ \A k \in 1..Len(tasks) :
          tasks[k].stage = "fulfilled" => Among(journal[tasks[k].inst.id].events, {"done"}) # {}
    /\ (last.op = "create" /\ last.err = NoError /\ last.val.kind = "inst")
          => Among(journal[last.val.id].events, {"done"}) # {}

\* a create of A was delivered after its constructor, its setter and its
\* init each returned a deferred that resolved
C13_Witness ==
    \E k \in 1..Len(tasks) :
        /\ tasks[k].stage = "fulfilled"
        /\ tasks[k].top = "A"
        /\ journal[tasks[k].inst.id].events =
               <<"new", "ctor resolved", "call", "setters resolved", "init",
                 "init resolved", "done">>

Rejections == {"ctor rejected", "setters rejected", "init rejected"}

\* C14: a rejection at one stage rejects the create with that error and no
\* later stage runs: after a rejected constructor deferred no injection
\* point and no init is performed, after a rejected setter deferred init is
\* never invoked, and after a rejected init deferred the create never
\* resolves to the instance.
C14_RejectionStops ==
    /\ \A id \in 1..Len(journal) :
          LET e == journal[id].events
          IN  \A n \in Among(e, Rejections) :
                  /\ n = Len(e)
                  /\ e[n] = "ctor rejected" => Among(e, {"set", "call", "init"}) = {}
                  /\ e[n] = "setters rejected" => Among(e, {"init"}) = {}
                  /\ Among(e, {"done"}) = {}
    /\ \A k \in 1..Len(tasks) :
          LET e == journal[tasks[k].inst.id].events
          IN  Among(e, Rejections) # {}
                  => /\ tasks[k].stage = "rejected"
                     /\ e[Len(e)] = "ctor rejected" => tasks[k].err = "ConstructorRejected"
                     /\ e[Len(e)] = "setters rejected" => tasks[k].err = "SetterRejected"
                     /\ e[Len(e)] = "init rejected" => tasks[k].err = "InitRejected"

\* a deferred one stage returned was rejected and other constructions went on
C14_Witness ==
    /\ \E k \in 1..Len(tasks) :
          /\ tasks[k].stage = "rejected"
          /\ tasks[k].at = "setters"
          /\ tasks[k].top = "A"
    /\ last.op = "settle"
    /\ last.err = NoError
    /\ left.create = 0

RECURSIVE Holds(_, _)
\* the value is v or a list or map that holds v
Holds(val, v) ==
    \/ val = v
    \/ \E n \in 1..Len(val.items) : Holds(val.items[n], v)

\* in the create that just returned, the constructor, a setter or init of
\* the instance returned a deferred
OwnDeferred(inst) ==
    \E n \in 1..Len(last.trace) :
        /\ last.trace[n].inst = inst
        /\ \/ last.trace[n].ev = "new" /\ inst.cls \in traits.ctor
           \/ last.trace[n].ev = "call" /\ inst.cls \in traits.setter
           \/ last.trace[n].ev = "init" /\ inst.cls \in traits.init

\* C15: create returns a deferred exactly when the constructor, a setter
\* or init of the instance it constructs returned a deferred; a dependency
\* whose construction is deferred is handed over as that deferred.
C15_DeferredIffOwn ==
    (last.op = "create" /\ last.err = NoError)
    => /\ last.val.kind = "deferred" <=> OwnDeferred(Settles(last.val))
       /\ \A k \in 1..Len(tasks) :
              (/\ k # last.task
               /\ \E n \in 1..Len(last.trace) :
                      last.trace[n].ev = "new" /\ last.trace[n].inst = tasks[k].inst)
              => \E n \in 1..Len(last.trace) :
                     /\ last.trace[n].ev \in {"new", "set", "call"}
                     /\ Holds(last.trace[n].val, Deferred(k))

\* create(B) returned the instance with the deferred of D assigned to it
C15_Witness ==
    /\ last.op = "create"
    /\ last.type = "B"
    /\ last.err = NoError
    /\ last.val.kind = "inst"
    /\ \E n \in 1..Len(last.trace) :
          /\ last.trace[n].ev = "set"
          /\ last.trace[n].inst = last.val
          /\ last.trace[n].val.kind = "deferred"
          /\ tasks[last.trace[n].val.id].inst.cls = "D"

-----------------------------------------------------------------------------
(* Declarations on a class and its subclass (C extends B), made before or  *)
(* after the container is constructed over the store.  No bindings.        *)

InheritDeclares == 3

InheritCreates == 1

InitInherit == Start(FALSE, NoTraits, Budget(InheritDeclares, 0, InheritCreates))

NextInherit ==
    \/ NewContainer
    \/ \E t \in {"A", "B", "C"}, key \in PropertyKeys, u \in {"A", "B", "D"} :
          DeclareInject(t, key, <<Leaf(u)>>)
    \/ \E t \in {"B", "C"} : Create(t)

SpecInherit == InitInherit /\ [][NextInherit]_vars

\* the properties assigned to the instance by the create that just returned
Assigned(inst) ==
    {n \in 1..Len(last.trace) : last.trace[n].ev = "set" /\ last.trace[n].inst = inst}

\* C12: with injection points declared on C and on its base B, create(C)
\* assigns every key declared by either of them once, a key declared by both
\* with an instance of what C requested there, and constructs nothing it
\* does not assign.
C12_SubclassInjections ==
    (/\ last.op = "create"
     /\ last.type = "C"
     /\ left.raised = {}
     /\ last.err = NoError
     /\ data["B"].injects # <<>>
     /\ data["C"].injects # <<>>)
    => /\ last.val.kind = "inst"
       /\ Cardinality(Assigned(last.val)) = Len(inheritedInjects(data, "C"))
       /\ \A j \in 1..Len(inheritedInjects(data, "C")) :
              \E n \in Assigned(last.val) :
                  /\ last.trace[n].key = inheritedInjects(data, "C")[j].key
                  /\ last.trace[n].val.kind = "inst"
                  /\ last.trace[n].val.cls = inheritedInjects(data, "C")[j].definition.type
       /\ \A n \in 1..Len(last.trace) :
              (last.trace[n].ev = "new" /\ last.trace[n].inst # last.val)
              => \E k \in 1..Len(last.trace) :
                     last.trace[k].ev = "set" /\ last.trace[k].val = last.trace[n].inst

\* C19: the constructor of a container raises CircularDependency when the
\* requirement graph of the store has a cycle, and otherwise returns with a
\* construction procedure compiled for every type the store knows.
C19_ConstructorValidatesAll ==
    last.op = "new"
    => IF Acyclic(data, binding)
       THEN /\ last.err = NoError
            /\ \A t \in Types : data[t].known => build[t].kind = "factory"
       ELSE last.err = "CircularDependency"

\* the keys of the injection points declared on the type itself
OwnKeys(type) == {data[type].injects[n].key : n \in 1..Len(data[type].injects)}

\* C28: create(C) performs the injection points of the base B before those
\* declared on C itself, and each key once, with the definition of the most
\* derived class that declares it.
C28_AncestorsFirst ==
    (/\ last.op = "create"
     /\ last.type = "C"
     /\ left.raised = {}
     /\ last.err = NoError
     /\ last.val.kind = "inst")
    => \A n \in Assigned(last.val), k \in Assigned(last.val) :
           /\ (last.trace[n].key = last.trace[k].key) => n = k
           /\ (last.trace[n].key \in OwnKeys("C") /\ last.trace[k].key \notin OwnKeys("C"))
                  => k < n
           /\ \A j \in 1..Len(inheritedInjects(data, "C")) :
                  inheritedInjects(data, "C")[j].key = last.trace[n].key
                  => last.trace[n].val.cls = inheritedInjects(data, "C")[j].definition.type

\* C29: once the procedure of C is compiled, a create(C) performs every
\* injection point declared on its base B whose key C does not declare,
\* those declared after C was compiled included.
C29_AncestorChangeReaches ==
    (/\ last.op = "create"
     /\ last.type = "C"
     /\ left.raised = {}
     /\ last.err = NoError
     /\ build["C"].kind = "factory")
    => \A key \in OwnKeys("B") \ OwnKeys("C") :
           \E n \in Assigned(Settles(last.val)) : last.trace[n].key = key

-----------------------------------------------------------------------------
(* Composite definitions: D requests lists and maps of A and B at its      *)
(* constructor, a property and a setter, while A is bound and re-bound.    *)

CompositeDeclares == 2

CompositeBinds == 2

CompositeCreates == 1

\* { k: [t, u, t], s: { k: t } }
Tree(t, u) ==
    Obj(<<"k", "s">>, <<Arr(<<Leaf(t), Leaf(u), Leaf(t)>>), Obj(<<"k">>, <<Leaf(t)>>)>>)

CompositeArgs == {<<Tree("A", "B")>>, <<Arr(<<Leaf("B"), Leaf("B")>>), Leaf("A")>>}

InitComposite ==
    Start(TRUE, NoTraits, Budget(CompositeDeclares, CompositeBinds, CompositeCreates))

NextComposite ==
    \/ \E key \in {NoKey, "a", "m"}, args \in CompositeArgs : DeclareInject("D", key, args)
    \/ \E u \in {"B", "C"} : Bind("A", u)
    \/ Create("D")

SpecComposite == InitComposite /\ [][NextComposite]_vars

RECURSIVE Shaped(_, _)
\* the value has the shape of the definition, an instance of the resolved
\* type at every leaf
Shaped(definition, val) ==
    IF definition.kind = "type"
    THEN val.kind = "inst" /\ val.cls = resolve(binding, definition.type)
    ELSE /\ val.kind = definition.kind
         /\ val.keys = definition.keys
         /\ Len(val.items) = Len(definition.items)
         /\ \A n \in 1..Len(val.items) : Shaped(definition.items[n], val.items[n])

RECURSIVE InstancesOf(_)
\* the instances at the leaves of a value, in order
InstancesOf(val) ==
    IF val.kind = "inst" THEN <<val>>
    ELSE IF val.items = <<>> THEN <<>>
    ELSE InstancesOf(val.items[1]) \o InstancesOf([val EXCEPT !.items = Tail(@)])

\* what the create that just returned handed to the instance at the key
Supplied(inst, ev, key) ==
    {last.trace[n].val : n \in {k \in 1..Len(last.trace) :
                                   /\ last.trace[k].ev = ev
                                   /\ last.trace[k].inst = inst
                                   /\ last.trace[k].key = key}}

\* C18: the value create hands to a constructor, a setter or a property has
\* the shape of the definition declared there, list for list and map for
\* map with the same keys, with an instance of the resolved type at every
\* leaf, no instance occurring twice.
C18_CompositeShape ==
    (/\ last.op = "create"
     /\ left.raised = {}
     /\ last.err = NoError)
    => /\ last.val.kind = "inst"
       /\ \A v \in Supplied(last.val, "new", NoKey) :
              /\ Shaped(Arr(data["D"].construct), v)
              /\ \A i, j \in 1..Len(InstancesOf(v)) :
                     InstancesOf(v)[i] = InstancesOf(v)[j] => i = j
       /\ \A n \in 1..Len(inheritedInjects(data, "D")) :
              LET inj == inheritedInjects(data, "D")[n]
                  got == Supplied(last.val, IF inj.method THEN "call" ELSE "set", inj.key)
              IN  /\ got # {}
                  /\ \A v \in got :
                         /\ Shaped(inj.definition, v)
                         /\ \A i, j \in 1..Len(InstancesOf(v)) :
                                InstancesOf(v)[i] = InstancesOf(v)[j] => i = j

-----------------------------------------------------------------------------
(* Declarations the store refuses: a second constructor injection, several *)
(* definitions for a property, an init that is no method, a second init.   *)

RefuseDeclares == 3

RefuseCreates == 1

RefuseTypes == {"A", "B"}

RefuseArgs == {<<Leaf("D")>>, <<Leaf("D"), Leaf("C")>>}

InitRefuse == Start(TRUE, NoTraits, Budget(RefuseDeclares, 0, RefuseCreates))

NextRefuse ==
    \/ \E t \in RefuseTypes, key \in {NoKey, "a", "m"}, args \in RefuseArgs :
          DeclareInject(t, key, args)
    \/ \E t \in RefuseTypes, key \in {"i", "m", "a"} : DeclareInit(t, key)
    \/ \E t \in RefuseTypes : Create(t)

SpecRefuse == InitRefuse /\ [][NextRefuse]_vars

\* C22: a declareInject for the constructor of a type that already has a
\* constructor injection raises DuplicateConstructorInjection and leaves the
\* record of the type, the first definition included, as it was.
C22_SecondConstructorRefused ==
    [][(/\ last'.op = "declareInject"
        /\ last'.arg = NoKey
        /\ data[last'.type].hasConstruct)
       => /\ last'.err = "DuplicateConstructorInjection"
          /\ data'[last'.type].hasConstruct
          /\ data'[last'.type].construct = data[last'.type].construct
          /\ data' = data]_vars

\* a second constructor injection was refused and the create that followed
\* called the constructor with the one value of the first definition
C22_Witness ==
    /\ last.op = "create"
    /\ last.err = NoError
    /\ "declareInject" \in left.raised
    /\ data[last.type].construct = <<Leaf("D")>>
    /\ \E n \in 1..Len(last.trace) :
          /\ last.trace[n].ev = "new"
          /\ last.trace[n].inst = last.val
          /\ Len(last.trace[n].val.items) = 1

\* C23: declareInject on a key that is a plain property with more than one
\* definition raises MultiParameterPropertyInjection, records nothing and
\* notifies nobody; on a key that is a method it is accepted and every
\* definition is recorded, in order, as an argument of the call.
C23_OneDefinitionPerProperty ==
    [][\A t \in RefuseTypes, key \in {"a", "m"}, args \in RefuseArgs :
          DeclareInject(t, key, args)
          => IF key \in PropertyKeys
             THEN Len(args) > 1
                  => /\ last'.err = "MultiParameterPropertyInjection"
                     /\ data' = data
                     /\ order' = order
                     /\ build' = build
             ELSE /\ last'.err # "MultiParameterPropertyInjection"
                  /\ Len(data'[t].injects) = Len(data[t].injects) + 1
                  /\ data'[t].injects[Len(data'[t].injects)] =
                         [key |-> key, definition |-> Arr(args), method |-> TRUE]]_vars

\* two definitions were refused for the property a, accepted for the method
\* m, and the create that followed called m with two values
C23_Witness ==
    /\ last.op = "create"
    /\ last.err = NoError
    /\ left.raised = {"declareInject"}
    /\ data[last.type].injects =
           <<[key |-> "m", definition |-> Arr(<<Leaf("D"), Leaf("C")>>), method |-> TRUE]>>
    /\ \E n \in 1..Len(last.trace) :
          /\ last.trace[n].ev = "call"
          /\ last.trace[n].inst = last.val
          /\ Len(last.trace[n].val.items) = 2

\* C24: declareInit on a key that is no method raises InvalidInitTarget, a
\* declareInit on a type that has an init key raises DuplicateInit, and
\* either leaves the init key of the type as it was.
C24_InitRefused ==
    [][last'.op = "declareInit"
       => /\ last'.arg \in PropertyKeys
             => /\ last'.err = "InvalidInitTarget"
                /\ data'[last'.type].init = data[last'.type].init
          /\ (last'.arg \in MethodKeys /\ data[last'.type].init # NoKey)
             => /\ last'.err = "DuplicateInit"
                /\ data'[last'.type].init = data[last'.type].init]_vars

\* a second declareInit, on the method m, was refused and the init key i
\* stayed
C24_Witness ==
    /\ last.op = "declareInit"
    /\ last.err = "DuplicateInit"
    /\ last.arg = "m"
    /\ data[last.type].init = "i"
    /\ left.declare = 0

\* C31: the injection points recorded for a type hold at most one entry per
\* key.
C31_OneEntryPerKey ==
    \A t \in Types :
        \A n \in 1..Len(data[t].injects), k \in 1..Len(data[t].injects) :
            data[t].injects[n].key = data[t].injects[k].key => n = k

-----------------------------------------------------------------------------
(* The binding table: bind and resolve over the four classes.               *)

ResolveBinds == 3

InitBindings == Start(TRUE, NoTraits, Budget(0, ResolveBinds, 0))

NextBindings ==
    \/ \E t \in Types, u \in Types : Bind(t, u)
    \/ \E t \in Types : Resolve(t)

SpecResolve == InitBindings /\ [][NextBindings]_vars

\* the types the bindings lead to from a type, itself included
BoundTo(b, type) ==
    ReachedFrom([t \in Types |-> IF b[t] = NoType THEN {} ELSE {b[t]}], {type},
                Cardinality(Types))

\* C26: resolve(T) returns a type of the binding chain of T that has no
\* binding, T itself when T has none; resolving the type returned returns it
\* again; the call changes neither the binding table nor a compiled
\* procedure.
C26_ResolveIsPure ==
    /\ [](last.op = "resolve"
            => /\ last.err = NoError
               /\ last.arg \in BoundTo(binding, last.type)
               /\ binding[last.arg] = NoType
               /\ resolve(binding, last.arg) = last.arg
               /\ binding[last.type] = NoType => last.arg = last.type)
    /\ [][last'.op = "resolve" => (binding' = binding /\ build' = build)]_vars

\* resolve followed two bindings to the end of the chain
C26_Witness ==
    /\ last.op = "resolve"
    /\ binding[last.type] # NoType
    /\ binding[binding[last.type]] = last.arg
    /\ binding[last.arg] = NoType
    /\ build[last.type].kind = "redirect"

\* C27: every bind and every resolve returns or raises; a bind that closes
\* a cycle of the binding table raises CircularDependency.
C27_BindAndResolveTerminate ==
    /\ last.op \in {"bind", "resolve"} => last.err # Hang
    /\ (\E t \in Types : binding[t] # NoType /\ t \in BoundTo(binding, binding[t]))
       => (last.op = "bind" /\ last.err = "CircularDependency")

\* C34: a bind that raises CircularDependency leaves the container as it
\* was: resolve(type) gives the type it gave before the call, and the
\* procedure create(type) runs is the one it ran before.
C34_RefusedBindLeavesContainer ==
    [][(last'.op = "bind" /\ last'.err = "CircularDependency")
       => /\ resolve(binding', last'.type) = resolve(binding, last'.type)
          /\ get(build', last'.type) = get(build, last'.type)]_vars

-----------------------------------------------------------------------------
(* The join of the setters: the setters m and i of A return deferreds, its *)
(* constructor and its init do not.                                        *)

JoinDeclares == 3

JoinCreates == 1

JoinTraits == [NoTraits EXCEPT !.setter = {"A"}]

InitJoin == Start(TRUE, JoinTraits, Budget(JoinDeclares, 0, JoinCreates))

NextJoin ==
    \/ \E key \in {"m", "i", "a"} : DeclareInject("A", key, <<Leaf("B")>>)
    \/ \E key \in MethodKeys : DeclareInit("A", key)
    \/ Create("A")
    \/ \E k \in 1..Len(tasks), key \in MethodKeys :
          SetterResolve(k, key) \/ SetterReject(k, key)

SpecJoin == InitJoin /\ [][NextJoin]_vars

\* C32: once the instance is there every injection point is performed,
\* whether or not a setter before it returned a deferred; init is invoked,
\* and the instance delivered, only after every deferred a setter returned
\* has resolved; the first of them to reject rejects the create with that
\* error, and nothing more happens to the instance.
C32_SettersJoined ==
    /\ \A id \in 1..Len(journal) :
          LET j == journal[id]
              e == j.events
          IN  /\ Cardinality(Among(e, {"set", "call"})) = Len(j.plan.injects)
              /\ \A n \in Among(e, {"set", "call"}) :
                     Before(e, n, {"setters resolved", "setters rejected"}) = {}
              /\ \A n \in Among(e, {"init", "done"}) : InjectionsOver(j, n)
              /\ \A n \in Among(e, {"setters rejected"}) :
                     n = Len(e) /\ Among(e, {"init", "done"}) = {}
    /\ \A k \in 1..Len(tasks) :
          LET e == journal[tasks[k].inst.id].events
          IN  /\ Among(e, {"setters rejected"}) # {}
                     <=> (tasks[k].stage = "rejected" /\ tasks[k].err = "SetterRejected")
              /\ tasks[k].stage = "fulfilled" => Among(e, {"done"}) # {}

\* the setter m returned a deferred, the property a and the setter i were
\* performed all the same, one deferred resolved and the other rejected the
\* create
C32_Witness ==
    \E k \in 1..Len(tasks) :
        /\ tasks[k].stage = "rejected"
        /\ tasks[k].err = "SetterRejected"
        /\ tasks[k].waiting # {}
        /\ journal[tasks[k].inst.id].events =
               <<"new", "call", "set", "call", "setters resolved", "setters rejected">>

-----------------------------------------------------------------------------
(* Declarations that are refused, the abstract one included. *)

RecordDeclares == 3

RecordCreates == 1

InitRecord == Start(TRUE, NoTraits, Budget(RecordDeclares, 0, RecordCreates))

NextRecord ==
    \/ \E t \in RefuseTypes, key \in {NoKey, "a", "m"} : DeclareAbstract(t, key)
    \/ \E t \in RefuseTypes, key \in {"a", "i"} : DeclareInit(t, key)
    \/ \E t \in RefuseTypes, key \in {NoKey, "a"}, args \in RefuseArgs :
          DeclareInject(t, key, args)
    \/ \E t \in RefuseTypes : Create(t)

SpecRecord == InitRecord /\ [][NextRecord]_vars

\* the errors a declaration raises for what it was asked to declare
DeclarationErrors ==
    {"DuplicateConstructorInjection", "MultiParameterPropertyInjection",
     "InvalidAbstractTarget", "InvalidInitTarget", "DuplicateInit"}

\* C35: a declaration that raises a declaration error leaves the record of
\* its type exactly as it was; a refused declareAbstract does not leave the
\* type abstract.
C35_RefusedDeclarationLeavesRecord ==
    [][(last'.err \in DeclarationErrors)
       => data'[last'.type] = data[last'.type]]_vars

-----------------------------------------------------------------------------
(* A store with a container attached, and the containers constructed over *)
(* it later.                                                               *)

StoreDeclares == 3

StoreBinds == 1

StoreTypes == {"A", "B", "D"}

InitStore == Start(TRUE, NoTraits, Budget(StoreDeclares, StoreBinds, 0))

NextStore ==
    \/ \E t \in StoreTypes, key \in PropertyKeys, u \in StoreTypes :
          DeclareInject(t, key, <<Leaf(u)>>)
    \/ \E t \in StoreTypes, u \in StoreTypes : Bind(t, u)

SpecStore == InitStore /\ [][NextStore]_vars

\* new BoundContainer(module) over the store as it is now: what its
\* constructor ends with
Constructed ==
    prebuild(data, Unbound,
             [build |-> [t \in Types |-> NoBuild], err |-> NoError, origins |-> <<>>,
              culprit |-> NoType, resolved |-> NoType],
             order)

\* the injection point of the last declareInject is in the record of its type
Recorded ==
    \E n \in 1..Len(data[last.type].injects) :
        data[last.type].injects[n].key = last.arg

-----------------------------------------------------------------------------
(* What a subclass does not inherit: B has a constructor injection (of its *)
(* own subclass C), an init method and the singleton mark; C, which        *)
(* extends B, declares a property; A is bound to C.                        *)

OwnDeclares == 4

OwnBinds == 1

OwnCreates == 2

InitOwn == Start(TRUE, NoTraits, Budget(OwnDeclares, OwnBinds, OwnCreates))

NextOwn ==
    \/ DeclareInject("B", NoKey, <<Leaf("C")>>)
    \/ DeclareInit("B", "i")
    \/ DeclareSingleton("B")
    \/ DeclareInject("C", "a", <<Leaf("D")>>)
    \/ Bind("A", "C")
    \/ \E t \in {"A", "B", "C"} : Create(t)

SpecOwn == InitOwn /\ [][NextOwn]_vars

-----------------------------------------------------------------------------
(* The path a CircularDependency reports: A and B declare a constructor    *)
(* with a nested literal, a property and a setter; C extends B; B may be   *)
(* bound.                                                                  *)

PathDeclares == 3

PathBinds == 1

InitPath == Start(TRUE, NoTraits, Budget(PathDeclares, PathBinds, 0))

NextPath ==
    \/ \E t \in {"A", "B"}, key \in {NoKey, "a", "m"} :
          \E injects \in DeclareArgs(key) : DeclareInject(t, key, injects)
    \/ \E u \in {"A", "C"} : Bind("B", u)

SpecPath == InitPath /\ [][NextPath]_vars

\* the injection edges that leave a type as it is requested: the label of
\* each and the types its definition names
EdgesOf(d, type) ==
    {[label |-> Origin(type, NoKey, FALSE), to |-> LeavesOfSeq(d[type].construct)] :
        x \in {y \in {type} : d[y].hasConstruct}}
    \cup
    {[label |-> Origin(type, c.key, c.method), to |-> Leaves(c.definition)] :
        c \in {inheritedInjects(d, type)[n] : n \in 1..Len(inheritedInjects(d, type))}}

RECURSIVE IsWalk(_, _, _, _)
\* the labels are those of a chain of edges that leads from a type to a target
IsWalk(d, type, labels, target) ==
    IF labels = <<>> THEN type = target
    ELSE \E e \in EdgesOf(d, type) :
            /\ e.label = Head(labels)
            /\ \E u \in e.to \cap Types : IsWalk(d, u, Tail(labels), target)

\* the types a configuration call starts a validation with
Validated ==
    IF last.op = "bind" THEN {last.arg}
    ELSE IF last.op = "new" THEN {order[n] : n \in 1..Len(order)}
    ELSE {last.type}

\* C33: the path a CircularDependency reports is the labels of the edges of
\* the walk, one for each constructor, property or setter edge from the
\* validated type down to the offending type and none for a list or map
\* in between, then the offending type as it was requested and, when a
\* binding changed it, the type it resolves to.
C33_ReportedPath ==
    last.err = "CircularDependency"
    => /\ last.origins # <<>>
       /\ last.culprit \in Types
       /\ \E start \in Validated : IsWalk(data, start, last.origins, last.culprit)
       /\ last.resolved = IF resolve(binding, last.culprit) # last.culprit
                          THEN resolve(binding, last.culprit) ELSE NoType

\* a cycle reported through the constructor of A, whose definition is a
\* nested literal, and the property C inherits from B: two labels, the
\* second under the name of C, then B and the type it is bound to
C33_Witness ==
    /\ last.err = "CircularDependency"
    /\ last.origins = <<"A(constructor)", "C.a">>
    /\ last.culprit = "B"
    /\ last.resolved = "A"

-----------------------------------------------------------------------------
(* Two containers over one Module: A requires D, A and D may be declared   *)
(* singletons, either container may bind A to B.                           *)

PairDeclares == 2

PairBinds == 1

PairCreates == 3

InitPair == Start(TRUE, NoTraits, Budget(PairDeclares, PairBinds, PairCreates))

NextPair ==
    \/ Switch
    \/ NewContainer
    \/ \E t \in {"A", "D"} : DeclareSingleton(t)
    \/ DeclareInject("A", "a", <<Leaf("D")>>)
    \/ Bind("A", "B")
    \/ Resolve("A")
    \/ \E t \in {"A", "D"} : Create(t)

SpecPair == InitPair /\ [][NextPair]_vars

\* the instances a builder has pinned
PinnedBy(bld) == {bld[t].inst : t \in {u \in Types : bld[u].kind = "instance"}}

\* C37: what resolve and create return on a container follows the bindings
\* of that container alone, whatever was bound on the other; an instance
\* pinned by one container is not pinned by the other, not returned by a
\* create of the other and not injected by it.
C37_ContainersApart ==
    /\ last.op = "resolve" => last.arg = resolve(binding, last.type)
    /\ (last.op = "create" /\ last.err = NoError)
       => /\ last.val.cls = resolve(binding, last.type)
          /\ last.val \notin PinnedBy(other.build)
          /\ \A n \in 1..Len(last.trace) :
                 /\ last.trace[n].inst \notin PinnedBy(other.build)
                 /\ last.trace[n].val \notin PinnedBy(other.build)
    /\ PinnedBy(build) \cap PinnedBy(other.build) = {}

\* the other container bound A to B and pinned its D; this one, without a
\* binding, pinned a D of its own and returned an A
C37_Witness ==
    /\ last.op = "create"
    /\ last.type = "A"
    /\ last.err = NoError
    /\ last.val.cls = "A"
    /\ binding = Unbound
    /\ other.binding["A"] = "B"
    /\ build["D"].kind = "instance"
    /\ other.build["D"].kind = "instance"
    /\ build["D"].inst # other.build["D"].inst

====
